---- MODULE Spec2Model ----
(***************************************************************************)
(* Model of scripts/validate-docs.py: the XML documentation validator for  *)
(* C# sources.  A source line is a sequence of tokens (strings); the line  *)
(* of the file is the concatenation of its tokens.  Every whitespace       *)
(* character is a token of its own, a word (\w+) is one token, the XML     *)
(* markers the script looks for are one token each.  Regular expressions   *)
(* are matched over tokens by a small backtracking matcher, so that each   *)
(* pattern of the script is transcribed item by item.                      *)
(***************************************************************************)
EXTENDS Integers, Sequences, FiniteSets, TLC

\* Total number of source lines over all files of one run.
MaxLines == 4

----------------------------------------------------------------------------
(* Tokens *)

Sp == " "
NL == "\n"

\* str.strip() and \s: the whitespace characters.
IsSpace(t) == t \in {" ", "\t", "\n"}

\* \w+ : the word tokens the model's lines are built from.
WordTokens ==
    {"public", "internal", "protected", "private", "static", "readonly",
     "class", "struct", "interface", "enum", "implicit", "explicit",
     "operator", "void", "int", "Foo", "Bar", "Count", "X", "get", "x", "a",
     "b", "S", "Obsolete", "TODO", "todo", "placeholder", "Invoke", "the",
     "member", "here", "5", "T", "Get"}

IsWord(t) == t \in WordTokens

\* re.IGNORECASE: case folding of the tokens that contain upper-case letters
\* and occur in the placeholder patterns.
Lower(t) ==
    CASE t = "TODO" -> "todo"
      [] t = "Invoke" -> "invoke"
      [] OTHER -> t

----------------------------------------------------------------------------
(* Regular expressions over tokens *)

Lit(v)   == [k |-> "lit",  v |-> v,  sub |-> <<>>]
LitI(v)  == [k |-> "liti", v |-> v,  sub |-> <<>>]
WS1      == [k |-> "ws1",  v |-> "", sub |-> <<>>]
WS0      == [k |-> "ws0",  v |-> "", sub |-> <<>>]
W        == [k |-> "word", v |-> "", sub |-> <<>>]
AnyText  == [k |-> "any",  v |-> "", sub |-> <<>>]
Opt(p)   == [k |-> "opt",  v |-> "", sub |-> <<p>>]
Alt(ps)  == [k |-> "alt",  v |-> "", sub |-> ps]

RECURSIVE MatchFrom(_, _, _, _)
RECURSIVE Ends(_, _, _)

\* The positions at which a match of the single item, begun at p, can end.
Ends(item, s, p) ==
    CASE item.k = "lit"  -> IF p <= Len(s) /\ s[p] = item.v THEN {p + 1} ELSE {}
      [] item.k = "liti" -> IF p <= Len(s) /\ Lower(s[p]) = item.v THEN {p + 1} ELSE {}
      [] item.k = "ws1"  -> {q \in (p + 1)..(Len(s) + 1) : \A j \in p..(q - 1) : IsSpace(s[j])}
      [] item.k = "ws0"  -> {q \in p..(Len(s) + 1) : \A j \in p..(q - 1) : IsSpace(s[j])}
      [] item.k = "word" -> IF p <= Len(s) /\ IsWord(s[p]) THEN {p + 1} ELSE {}
      [] item.k = "any"  -> p..(Len(s) + 1)
      [] item.k = "opt"  -> {p} \cup MatchFrom(item.sub[1], 1, s, p)
      [] item.k = "alt"  -> UNION {MatchFrom(item.sub[n], 1, s, p) : n \in DOMAIN item.sub}

\* The positions at which a match of items k.. of pat, begun at p, can end.
MatchFrom(pat, k, s, p) ==
    IF k > Len(pat) THEN {p}
    ELSE UNION {MatchFrom(pat, k + 1, s, q) : q \in Ends(pat[k], s, p)}

\* re.search of a pattern that starts with ^ : a match at the start only.
MatchAtStart(pat, s) == MatchFrom(pat, 1, s, 1) # {}

\* re.search of an unanchored pattern: a match at any position.
Search(pat, s) == \E p \in 1..(Len(s) + 1) : MatchFrom(pat, 1, s, p) # {}

----------------------------------------------------------------------------
(* Sequence helpers *)

RECURSIVE LStrip(_)
LStrip(s) == IF s # <<>> /\ IsSpace(Head(s)) THEN LStrip(Tail(s)) ELSE s

RECURSIVE RStrip(_)
RStrip(s) ==
    IF s # <<>> /\ IsSpace(s[Len(s)]) THEN RStrip(SubSeq(s, 1, Len(s) - 1)) ELSE s

\* str.strip()
Strip(s) == RStrip(LStrip(s))

\* 'marker' in stripped
Has(s, marker) == \E p \in DOMAIN s : s[p] = marker

\* '\n'.join(list)
RECURSIVE Join(_)
Join(list) ==
    IF list = <<>> THEN <<>>
    ELSE IF Len(list) = 1 THEN list[1]
    ELSE list[1] \o <<NL>> \o Join(Tail(list))

----------------------------------------------------------------------------
(* Data classes *)

\* current_block = None
None == <<>>

\* XmlDocBlock(start_line=i, end_line=i), the other fields at their defaults.
XmlDocBlock(i) ==
    [start_line |-> i, end_line |-> i, has_summary |-> FALSE,
     has_example |-> FALSE, has_code_csharp |-> FALSE, code_content |-> <<>>,
     member_line |-> 0, member_type |-> "", member_name |-> ""]

DocIssue(f, l, t, m) == [file |-> f, line |-> l, issue_type |-> t, message |-> m]

----------------------------------------------------------------------------
(* Patterns *)

\* PLACEHOLDER_PATTERNS: the pattern's text and its items.
PLACEHOLDER_PATTERNS ==
    << [src |-> "invoke\\s+the\\s+member\\s+here",
        re  |-> <<LitI("invoke"), WS1, LitI("the"), WS1, LitI("member"), WS1, LitI("here")>>],
       [src |-> "invoke\\s+member\\s+here",
        re  |-> <<LitI("invoke"), WS1, LitI("member"), WS1, LitI("here")>>],
       [src |-> "TODO",
        re  |-> <<LitI("todo")>>],
       [src |-> "placeholder",
        re  |-> <<LitI("placeholder")>>],
       [src |-> "\\.\\.\\.\\.\\.\\.",
        re  |-> <<Lit("."), Lit("."), Lit("."), Lit("."), Lit("."), Lit(".")>>] >>

\* ^\s*(public|internal|protected|protected\s+internal)\s+
Visibility ==
    << WS0,
       Alt(<< <<Lit("public")>>, <<Lit("internal")>>, <<Lit("protected")>>,
              <<Lit("protected"), WS1, Lit("internal")>> >>),
       WS1 >>

OptStatic == Opt(<<Lit("static"), WS1>>)

\* The eleven patterns of the loop that recognises a non-private member.
MemberPatterns ==
    << Visibility \o <<AnyText, WS1, W, WS0, Lit("(")>>,
       Visibility \o <<OptStatic, W, WS0, Lit("{")>>,
       Visibility \o <<OptStatic, Opt(<<Lit("readonly"), WS1>>), W, WS1, W, WS0, Lit("{")>>,
       Visibility \o <<OptStatic,
                       Alt(<< <<Lit("class")>>, <<Lit("struct")>>,
                              <<Lit("interface")>>, <<Lit("enum")>> >>),
                       WS1, W>>,
       Visibility \o <<Lit("implicit"), WS1, Lit("operator")>>,
       Visibility \o <<Lit("explicit"), WS1, Lit("operator")>>,
       Visibility \o <<Lit("static"), WS1, Lit("implicit"), WS1, Lit("operator")>>,
       Visibility \o <<Lit("static"), WS1, Lit("explicit"), WS1, Lit("operator")>>,
       Visibility \o <<Lit("static"), WS1, W, WS1, Lit("operator")>>,
       Visibility \o <<W, WS1, Lit("operator")>>,
       Visibility \o <<OptStatic, Opt(<<W, WS1>>), Lit("operator")>> >>

\* stripped.startswith('///')
IsDocLine(line) == LET s == Strip(line) IN s # <<>> /\ s[1] = "///"

\* re.match(r'^\s*///\s*(.*)$', line).group(1)
ContentAfterSlashes(line) == LStrip(Tail(LStrip(line)))

\* check_for_placeholders: the texts of the patterns found, in list order.
RECURSIVE FoundFrom(_, _)
FoundFrom(n, code) ==
    IF n > Len(PLACEHOLDER_PATTERNS) THEN <<>>
    ELSE (IF Search(PLACEHOLDER_PATTERNS[n].re, code)
          THEN <<PLACEHOLDER_PATTERNS[n].src>> ELSE <<>>) \o FoundFrom(n + 1, code)

check_for_placeholders(code) == FoundFrom(1, code)

----------------------------------------------------------------------------
(* Input lines *)

Doc(rest) == <<"///", Sp>> \o rest

CodeOpen == "<code lang=\"csharp\">"

LineSummary    == Doc(<<"<summary>", "S", "</summary>">>)
LineSummaryEnd == Doc(<<"</summary>">>)
LineExample    == Doc(<<"<example>">>)
LineCodeOpen   == Doc(<<CodeOpen>>)
LineCodeBad    == Doc(<<"<code lang=\"CSharp\">">>)
LineCodeClose  == Doc(<<"</code>">>)
LineTodo       == Doc(<<Sp, Sp, "todo", Sp, "placeholder">>)
LineOneLine    == Doc(<<CodeOpen, "TODO", "</code>">>)
LineHead       == Doc(<<"<summary>", "S", "</summary>", "<example>", CodeOpen>>)
LineHeadTodo   == Doc(<<"<summary>", "S", "</summary>", "<example>", "TODO", CodeOpen>>)
LineHeadInvoke == LineHead \o <<"Invoke">>
LineHeadInvokeThe == LineHead \o <<"Invoke", Sp, Sp, "the">>
LineMember     == <<Sp, Sp>> \o Doc(<<"member", Sp, "here", ".", ".", ".", ".", ".", ".">>)

Blank          == <<>>
Method         == <<"public", Sp, "void", Sp, "Foo", "(", ")">>
Private        == <<"private", Sp, "void", Sp, "Bar", "(", ")">>
NoVisibility   == <<"void", Sp, "Foo", "(", ")">>
Attribute      == <<Sp, Sp, "[", "Obsolete", "]">>
Field          == <<"public", Sp, "int", Sp, "Count", ";">>
Property       == <<"public", Sp, "int", Sp, "X", Sp, "{", Sp, "get", ";", Sp, "}">>
ExprProperty   == <<"public", Sp, "int", Sp, "X", Sp, "=>", Sp, "5", ";">>
ProtectedInternal == <<"protected", Sp, "internal", Sp, "int", Sp, "X", Sp, "{">>
Class          == <<Sp, Sp, "public", Sp, "class", Sp, "Foo">>
Constructor    == <<"public", Sp, "Foo", "(", ")">>
GenericMethod  == <<"public", Sp, "T", Sp, "Get", "<", "T", ">", "(", "T", Sp, "x", ")">>
OperatorPlus   ==
    <<"public", Sp, "static", Sp, "Foo", Sp, "operator", Sp, "+", "(",
      "Foo", Sp, "a", ",", Sp, "Foo", Sp, "b", ")">>
Conversion     ==
    <<"internal", Sp, "static", Sp, "implicit", Sp, "operator", Sp, "Foo", "(",
      "int", Sp, "x", ")">>

\* The families of inputs explored: the lines a file of the family is made of.
Profiles ==
    {"rules", "code", "sequence", "text", "member", "property", "operator", "main"}

Catalogue(pr) ==
    CASE pr = "rules" ->
           {LineSummary, LineSummaryEnd, LineExample, LineCodeBad, LineOneLine,
            Method, Blank}
      [] pr = "code" ->
           {LineHead, LineHeadTodo, LineCodeOpen, LineTodo, LineCodeClose,
            LineExample, Method}
      [] pr = "sequence" ->
           {LineHeadTodo, LineCodeClose, LineOneLine, LineCodeOpen, Method}
      [] pr = "text" ->
           {LineHeadInvoke, LineHeadInvokeThe, LineMember, LineCodeClose, Method}
      [] pr = "member" ->
           {LineSummary, Method, Private, NoVisibility, Attribute, Field, Blank}
      [] pr = "property" ->
           {LineSummary, Property, ExprProperty, ProtectedInternal, Class}
      [] pr = "operator" ->
           {LineSummary, Constructor, GenericMethod, OperatorPlus, Conversion}
      [] pr = "main" ->
           {LineHeadTodo, LineCodeClose, Method}

AllLines == UNION {Catalogue(pr) : pr \in Profiles}

----------------------------------------------------------------------------
(* The loop over the member patterns *)

\* re.search(pattern, line) for every pattern of the list and every line of
\* the inputs, computed once.
MemberMatches ==
    [l \in AllLines |->
        {n \in DOMAIN MemberPatterns : MatchAtStart(MemberPatterns[n], l)}]

\* The patterns of the loop that match the line.
MatchingPatterns(line) == MemberMatches[line]

\* How many times the loop over the patterns appends the block: once, at the
\* first match, because of the break.
\* Variants: the loop without its break; the append outside the match test.
AppendsNoBreak(line) == Cardinality(MatchingPatterns(line))
AppendsAlways(line) == 1
Appends(line) == IF MatchingPatterns(line) # {} THEN 1 ELSE 0

----------------------------------------------------------------------------
(* The directory tree and find_src_files *)

\* A path is the sequence of its components below the root.
PathA == <<"src", "A.cs">>
PathB == <<"src", "lib", "src", "B.cs">>
PathC == <<"src", "C.cs">>
PathG == <<"src", "obj", "G.cs">>
PathD == <<"docs", "D.cs">>
PathR == <<"src", "README.md">>

PathUniverse == {PathA, PathB, PathC, PathG, PathD, PathR}

\* The order of str on the component names used.
NameRank(c) ==
    CASE c = "A.cs" -> 1 [] c = "B.cs" -> 2 [] c = "C.cs" -> 3 [] c = "D.cs" -> 4
      [] c = "G.cs" -> 5 [] c = "README.md" -> 6 [] c = "docs" -> 7
      [] c = "lib" -> 8 [] c = "obj" -> 9 [] c = "src" -> 10

\* fnmatch(name, "*.cs")
IsCs(c) == c \in {"A.cs", "B.cs", "C.cs", "D.cs", "G.cs"}

\* Path.__lt__: component by component.
RECURSIVE PathLess(_, _)
PathLess(p, q) ==
    IF q = <<>> THEN FALSE
    ELSE IF p = <<>> THEN TRUE
    ELSE IF p[1] # q[1] THEN NameRank(p[1]) < NameRank(q[1])
    ELSE PathLess(Tail(p), Tail(q))

\* The directories of the tree: the proper prefixes of its files' paths.
Dirs(tree) == UNION {{SubSeq(p, 1, n) : n \in 1..(Len(p) - 1)} : p \in tree}

\* root.rglob("src"), directories only
SrcDirs(tree) == {d \in Dirs(tree) : d[Len(d)] = "src"}

\* "/bin/" in str(cs_file) or "/obj/" in str(cs_file)
InBinOrObj(p) == \E n \in 1..(Len(p) - 1) : p[n] \in {"bin", "obj"}

\* How many times the nested loops append the file: once for every src
\* directory above it.
TimesFound(tree, p) ==
    IF IsCs(p[Len(p)]) /\ ~InBinOrObj(p)
    THEN Cardinality({d \in SrcDirs(tree) :
                        Len(d) < Len(p) /\ SubSeq(p, 1, Len(d)) = d})
    ELSE 0

\* sorted(files)
RECURSIVE SortedFiles(_, _)
SortedFiles(tree, todo) ==
    IF todo = {} THEN <<>>
    ELSE LET p == CHOOSE x \in todo : \A y \in todo \ {x} : PathLess(x, y)
         IN  [n \in 1..TimesFound(tree, p) |-> p] \o SortedFiles(tree, todo \ {p})

find_src_files(tree) == SortedFiles(tree, tree)

\* The trees explored by a family of inputs.
Trees(pr) == IF pr = "main" THEN SUBSET PathUniverse ELSE {{PathA}}

----------------------------------------------------------------------------
(* State *)

VARIABLES
    profile,            \* the family of inputs of this run
    files,              \* main: the list find_src_files returned
    disk,               \* the files on disk: unread, unreadable, or their lines
    fidx,               \* main: how many files of the list are done
    pc,                 \* "main", "scan", "check", "tally", "exit"
    lines,              \* extract_xml_doc_blocks: the lines scanned so far
    blocks,             \* extract_xml_doc_blocks: blocks
    current_block,      \* extract_xml_doc_blocks: current_block
    in_code,            \* extract_xml_doc_blocks: in_code
    code_content,       \* extract_xml_doc_blocks: code_content (list of lines)
    bidx,               \* validate_file: how many blocks are checked
    issues,             \* validate_file: issues
    total_issues, total_errors, total_warnings, files_with_issues,
    printed,            \* main: the issues printed so far
    exit_code           \* sys.exit status, -1 while running

vars == <<profile, files, disk, fidx, pc, lines, blocks, current_block, in_code,
          code_content, bidx, issues, total_issues, total_errors,
          total_warnings, files_with_issues, printed, exit_code>>

scanVars == <<lines, blocks, current_block, in_code, code_content>>
mainVars == <<total_issues, total_errors, total_warnings, files_with_issues,
              printed, exit_code>>

Unread == [st |-> "unread", text |-> <<>>]
Unreadable == [st |-> "unreadable", text |-> <<>>]
Text(t) == [st |-> "text", text |-> t]

\* The file main is at.
file_path == files[fidx + 1]

\* The lines not yet spent of the input bound.
RECURSIVE LinesOn(_, _)
LinesOn(d, ps) ==
    IF ps = {} THEN 0
    ELSE LET p == CHOOSE x \in ps : TRUE
         IN  Len(d[p].text) + LinesOn(d, ps \ {p})

Budget == MaxLines - LinesOn(disk, DOMAIN disk) - (IF pc = "scan" THEN Len(lines) ELSE 0)

Init ==
    /\ profile \in Profiles
    /\ \E tree \in Trees(profile) :
          /\ files = find_src_files(tree)
          /\ disk = [p \in {files[n] : n \in DOMAIN files} |-> Unread]
    /\ fidx = 0
    /\ pc = "main"
    /\ lines = <<>>
    /\ blocks = <<>>
    /\ current_block = None
    /\ in_code = FALSE
    /\ code_content = <<>>
    /\ bidx = 0
    /\ issues = <<>>
    /\ total_issues = 0
    /\ total_errors = 0
    /\ total_warnings = 0
    /\ files_with_issues = 0
    /\ printed = <<>>
    /\ exit_code = -1

----------------------------------------------------------------------------
(* validate_file *)

\* Variant: the exception of read_text() is not caught and ends main.
ReadFailAborts ==
    /\ pc = "main"
    /\ fidx < Len(files)
    /\ disk[file_path].st \in {"unread", "unreadable"}
    /\ disk' = [disk EXCEPT ![file_path] = Unreadable]
    /\ exit_code' = 1
    /\ pc' = "exit"
    /\ UNCHANGED <<profile, files, fidx, scanVars, bidx, issues, total_issues,
                   total_errors, total_warnings, files_with_issues, printed>>

\* file_path.read_text() raises: one error issue, returned at once.
ReadFail ==
    /\ pc = "main"
    /\ fidx < Len(files)
    /\ disk[file_path].st \in {"unread", "unreadable"}
    /\ disk' = [disk EXCEPT ![file_path] = Unreadable]
    /\ issues' = <<DocIssue(file_path, 0, "error", <<"Could not read file: ", "e">>)>>
    /\ lines' = <<>>
    /\ blocks' = <<>>
    /\ current_block' = None
    /\ in_code' = FALSE
    /\ code_content' = <<>>
    /\ bidx' = 0
    /\ pc' = "tally"
    /\ UNCHANGED <<profile, files, fidx, mainVars>>

\* Variant: issues is a list that outlives the call (a module-level list).
ReadOkKeepsIssues ==
    /\ pc = "main"
    /\ fidx < Len(files)
    /\ \/ disk[file_path].st = "text"
       \/ disk[file_path].st = "unread" /\ Budget > 0
    /\ lines' = <<>>
    /\ blocks' = <<>>
    /\ current_block' = None
    /\ in_code' = FALSE
    /\ code_content' = <<>>
    /\ bidx' = 0
    /\ pc' = "scan"
    /\ UNCHANGED <<profile, files, disk, fidx, issues, mainVars>>

\* file_path.read_text() returns; extract_xml_doc_blocks starts.
ReadOk ==
    /\ pc = "main"
    /\ fidx < Len(files)
    /\ \/ disk[file_path].st = "text"
       \/ disk[file_path].st = "unread" /\ Budget > 0
    /\ issues' = <<>>
    /\ lines' = <<>>
    /\ blocks' = <<>>
    /\ current_block' = None
    /\ in_code' = FALSE
    /\ code_content' = <<>>
    /\ bidx' = 0
    /\ pc' = "scan"
    /\ UNCHANGED <<profile, files, disk, fidx, mainVars>>

\* Variant: has_summary is assigned the value of the test, so that a line
\* with </summary> and without <summary> clears it.
ScanDocUnsticky(line, i) ==
    LET stripped == Strip(line)
        b0 == IF current_block = None THEN XmlDocBlock(i)
              ELSE [current_block[1] EXCEPT !.end_line = i]
        b1 == [b0 EXCEPT !.has_summary =
                  Has(stripped, "<summary>")
                  \/ (b0.has_summary /\ ~Has(stripped, "</summary>"))]
        b2 == IF Has(stripped, "<example>")
              THEN [b1 EXCEPT !.has_example = TRUE] ELSE b1
        open == Has(stripped, CodeOpen)
        b3 == IF open THEN [b2 EXCEPT !.has_code_csharp = TRUE] ELSE b2
        in1 == IF open THEN TRUE ELSE in_code
        cc1 == IF open THEN <<>> ELSE code_content
        close == Has(stripped, "</code>")
        in2 == IF close THEN FALSE ELSE in1
        b4 == IF close THEN [b3 EXCEPT !.code_content = Join(cc1)] ELSE b3
    IN  /\ current_block' = <<b4>>
        /\ in_code' = in2
        /\ code_content' = IF in2 THEN Append(cc1, ContentAfterSlashes(line)) ELSE cc1
        /\ blocks' = blocks

\* Variant: the open marker does not empty the list of captured lines.
ScanDocAccumulates(line, i) ==
    LET stripped == Strip(line)
        b0 == IF current_block = None THEN XmlDocBlock(i)
              ELSE [current_block[1] EXCEPT !.end_line = i]
        b1 == IF Has(stripped, "<summary>")
                 \/ (b0.has_summary /\ ~Has(stripped, "</summary>"))
              THEN [b0 EXCEPT !.has_summary = TRUE] ELSE b0
        b2 == IF Has(stripped, "<example>")
              THEN [b1 EXCEPT !.has_example = TRUE] ELSE b1
        open == Has(stripped, CodeOpen)
        b3 == IF open THEN [b2 EXCEPT !.has_code_csharp = TRUE] ELSE b2
        in1 == IF open THEN TRUE ELSE in_code
        cc1 == code_content
        close == Has(stripped, "</code>")
        in2 == IF close THEN FALSE ELSE in1
        b4 == IF close THEN [b3 EXCEPT !.code_content = Join(cc1)] ELSE b3
    IN  /\ current_block' = <<b4>>
        /\ in_code' = in2
        /\ code_content' = IF in2 THEN Append(cc1, ContentAfterSlashes(line)) ELSE cc1
        /\ blocks' = blocks

\* Variant: end_line is not moved to the later lines of the run.
ScanDocKeepsEnd(line, i) ==
    LET stripped == Strip(line)
        b0 == IF current_block = None THEN XmlDocBlock(i) ELSE current_block[1]
        b1 == IF Has(stripped, "<summary>")
                 \/ (b0.has_summary /\ ~Has(stripped, "</summary>"))
              THEN [b0 EXCEPT !.has_summary = TRUE] ELSE b0
        b2 == IF Has(stripped, "<example>")
              THEN [b1 EXCEPT !.has_example = TRUE] ELSE b1
        open == Has(stripped, CodeOpen)
        b3 == IF open THEN [b2 EXCEPT !.has_code_csharp = TRUE] ELSE b2
        in1 == IF open THEN TRUE ELSE in_code
        cc1 == IF open THEN <<>> ELSE code_content
        close == Has(stripped, "</code>")
        in2 == IF close THEN FALSE ELSE in1
        b4 == IF close THEN [b3 EXCEPT !.code_content = Join(cc1)] ELSE b3
    IN  /\ current_block' = <<b4>>
        /\ in_code' = in2
        /\ code_content' = IF in2 THEN Append(cc1, ContentAfterSlashes(line)) ELSE cc1
        /\ blocks' = blocks

\* Variant: the block's code_content is set at every captured line, not only
\* at the close marker.
ScanDocEager(line, i) ==
    LET stripped == Strip(line)
        b0 == IF current_block = None THEN XmlDocBlock(i)
              ELSE [current_block[1] EXCEPT !.end_line = i]
        b1 == IF Has(stripped, "<summary>")
                 \/ (b0.has_summary /\ ~Has(stripped, "</summary>"))
              THEN [b0 EXCEPT !.has_summary = TRUE] ELSE b0
        b2 == IF Has(stripped, "<example>")
              THEN [b1 EXCEPT !.has_example = TRUE] ELSE b1
        open == Has(stripped, CodeOpen)
        b3 == IF open THEN [b2 EXCEPT !.has_code_csharp = TRUE] ELSE b2
        in1 == IF open THEN TRUE ELSE in_code
        cc1 == IF open THEN <<>> ELSE code_content
        close == Has(stripped, "</code>")
        in2 == IF close THEN FALSE ELSE in1
        b4 == IF close THEN [b3 EXCEPT !.code_content = Join(cc1)] ELSE b3
        cc2 == IF in2 THEN Append(cc1, ContentAfterSlashes(line)) ELSE cc1
    IN  /\ current_block' = <<IF in2 THEN [b4 EXCEPT !.code_content = Join(cc2)] ELSE b4>>
        /\ in_code' = in2
        /\ code_content' = cc2
        /\ blocks' = blocks

\* Variant: <example> counts only once the run has its summary.
ScanDocOrdered(line, i) ==
    LET stripped == Strip(line)
        b0 == IF current_block = None THEN XmlDocBlock(i)
              ELSE [current_block[1] EXCEPT !.end_line = i]
        b1 == IF Has(stripped, "<summary>")
                 \/ (b0.has_summary /\ ~Has(stripped, "</summary>"))
              THEN [b0 EXCEPT !.has_summary = TRUE] ELSE b0
        b2 == IF Has(stripped, "<example>") /\ b1.has_summary
              THEN [b1 EXCEPT !.has_example = TRUE] ELSE b1
        open == Has(stripped, CodeOpen)
        b3 == IF open THEN [b2 EXCEPT !.has_code_csharp = TRUE] ELSE b2
        in1 == IF open THEN TRUE ELSE in_code
        cc1 == IF open THEN <<>> ELSE code_content
        close == Has(stripped, "</code>")
        in2 == IF close THEN FALSE ELSE in1
        b4 == IF close THEN [b3 EXCEPT !.code_content = Join(cc1)] ELSE b3
    IN  /\ current_block' = <<b4>>
        /\ in_code' = in2
        /\ code_content' = IF in2 THEN Append(cc1, ContentAfterSlashes(line)) ELSE cc1
        /\ blocks' = blocks

\* The body of the loop over the lines, for a line that starts with ///.
ScanDoc(line, i) ==
    LET stripped == Strip(line)
        b0 == IF current_block = None THEN XmlDocBlock(i)
              ELSE [current_block[1] EXCEPT !.end_line = i]
        b1 == IF Has(stripped, "<summary>")
                 \/ (b0.has_summary /\ ~Has(stripped, "</summary>"))
              THEN [b0 EXCEPT !.has_summary = TRUE] ELSE b0
        b2 == IF Has(stripped, "<example>")
              THEN [b1 EXCEPT !.has_example = TRUE] ELSE b1
        open == Has(stripped, CodeOpen)
        b3 == IF open THEN [b2 EXCEPT !.has_code_csharp = TRUE] ELSE b2
        in1 == IF open THEN TRUE ELSE in_code
        cc1 == IF open THEN <<>> ELSE code_content
        close == Has(stripped, "</code>")
        in2 == IF close THEN FALSE ELSE in1
        b4 == IF close THEN [b3 EXCEPT !.code_content = Join(cc1)] ELSE b3
    IN  /\ current_block' = <<b4>>
        /\ in_code' = in2
        /\ code_content' = IF in2 THEN Append(cc1, ContentAfterSlashes(line)) ELSE cc1
        /\ blocks' = blocks

\* Variant: capture mode and the captured lines outlive the run.
ScanOtherKeepsCapture(line, i) ==
    /\ blocks' = IF current_block = None THEN blocks
                 ELSE blocks \o [n \in 1..Appends(line) |->
                                   [current_block[1] EXCEPT !.member_line = i]]
    /\ current_block' = None
    /\ in_code' = in_code
    /\ code_content' = code_content

\* The body of the loop over the lines, for any other line.
ScanOther(line, i) ==
    /\ blocks' = IF current_block = None THEN blocks
                 ELSE blocks \o [n \in 1..Appends(line) |->
                                   [current_block[1] EXCEPT !.member_line = i]]
    /\ current_block' = None
    /\ in_code' = FALSE
    /\ code_content' = <<>>

\* One iteration of the loop over the lines of the file.
ScanLine ==
    /\ pc = "scan"
    /\ \E line \in Catalogue(profile) :
          /\ IF disk[file_path].st = "text"
             THEN /\ Len(lines) < Len(disk[file_path].text)
                  /\ line = disk[file_path].text[Len(lines) + 1]
             ELSE Budget > 0
          /\ lines' = Append(lines, line)
          /\ IF IsDocLine(line)
             THEN ScanDoc(line, Len(lines) + 1)
             ELSE ScanOther(line, Len(lines) + 1)
    /\ UNCHANGED <<profile, files, disk, fidx, pc, bidx, issues, mainVars>>

\* Variant: the run still open at the end of the file is returned too.
EndScanFlush ==
    /\ pc = "scan"
    /\ Len(lines) >= 1
    /\ disk[file_path].st = "text" => lines = disk[file_path].text
    /\ disk' = [disk EXCEPT ![file_path] = Text(lines)]
    /\ blocks' = blocks \o current_block
    /\ pc' = "check"
    /\ UNCHANGED <<profile, files, fidx, lines, current_block, in_code,
                   code_content, bidx, issues, mainVars>>

\* The loop over the lines ends: extract_xml_doc_blocks returns blocks.
EndScan ==
    /\ pc = "scan"
    /\ Len(lines) >= 1
    /\ disk[file_path].st = "text" => lines = disk[file_path].text
    /\ disk' = [disk EXCEPT ![file_path] = Text(lines)]
    /\ pc' = "check"
    /\ UNCHANGED <<profile, files, fidx, scanVars, bidx, issues, mainVars>>

MissingSummary == <<"Non-private member missing <summary>">>
MissingExample == <<"Non-private member missing <example> with <code lang=\"csharp\">">>
PlaceholderFound(pattern) == <<"Code example contains placeholder pattern: ", pattern>>

\* Variant: the rules without the continue statements.
BlockIssuesCumulative(f, block) ==
    (IF ~block.has_summary
     THEN <<DocIssue(f, block.start_line, "error", MissingSummary)>> ELSE <<>>)
    \o (IF ~block.has_example \/ ~block.has_code_csharp
        THEN <<DocIssue(f, block.start_line, "error", MissingExample)>> ELSE <<>>)
    \o [n \in DOMAIN check_for_placeholders(block.code_content) |->
          DocIssue(f, block.start_line, "warning",
                   PlaceholderFound(check_for_placeholders(block.code_content)[n]))]
\* Variant: the issues at the declaration line.
BlockIssuesAtMember(f, block) ==
    IF ~block.has_summary
    THEN <<DocIssue(f, block.member_line, "error", MissingSummary)>>
    ELSE IF ~block.has_example \/ ~block.has_code_csharp
    THEN <<DocIssue(f, block.member_line, "error", MissingExample)>>
    ELSE LET placeholders == check_for_placeholders(block.code_content)
         IN  [n \in DOMAIN placeholders |->
                DocIssue(f, block.member_line, "warning", PlaceholderFound(placeholders[n]))]
\* The issues the body of the loop over the blocks appends for one block.
BlockIssues(f, block) ==
    IF ~block.has_summary
    THEN <<DocIssue(f, block.start_line, "error", MissingSummary)>>
    ELSE IF ~block.has_example \/ ~block.has_code_csharp
    THEN <<DocIssue(f, block.start_line, "error", MissingExample)>>
    ELSE LET placeholders == check_for_placeholders(block.code_content)
         IN  [n \in DOMAIN placeholders |->
                DocIssue(f, block.start_line, "warning", PlaceholderFound(placeholders[n]))]

\* One iteration of the loop over the blocks.
CheckBlock ==
    /\ pc = "check"
    /\ bidx < Len(blocks)
    /\ issues' = issues \o BlockIssues(file_path, blocks[bidx + 1])
    /\ bidx' = bidx + 1
    /\ UNCHANGED <<profile, files, disk, fidx, pc, scanVars, mainVars>>

\* The loop over the blocks ends: validate_file returns issues.
Return ==
    /\ pc = "check"
    /\ bidx = Len(blocks)
    /\ pc' = "tally"
    /\ UNCHANGED <<profile, files, disk, fidx, scanVars, bidx, issues, mainVars>>

----------------------------------------------------------------------------
(* main *)

Errors(is) == Len(SelectSeq(is, LAMBDA x : x.issue_type = "error"))
Warnings(is) == Len(SelectSeq(is, LAMBDA x : x.issue_type # "error"))

\* The body of the loop over the files, after validate_file returned.
Tally ==
    /\ pc = "tally"
    /\ files_with_issues' = files_with_issues + (IF issues # <<>> THEN 1 ELSE 0)
    /\ total_issues' = total_issues + Len(issues)
    /\ total_errors' = total_errors + Errors(issues)
    /\ total_warnings' = total_warnings + Warnings(issues)
    /\ printed' = printed \o issues
    /\ fidx' = fidx + 1
    /\ pc' = "main"
    /\ UNCHANGED <<profile, files, disk, scanVars, bidx, issues, exit_code>>

\* Variant: warnings fail the run too.
ExitStatusAnyIssue == IF total_issues > 0 THEN 1 ELSE 0
\* The status main exits with.
ExitStatus == IF total_errors > 0 THEN 1 ELSE 0

\* The loop over the files is over: the summary, then sys.exit.
Exit ==
    /\ pc = "main"
    /\ fidx = Len(files)
    /\ exit_code' = ExitStatus
    /\ pc' = "exit"
    /\ UNCHANGED <<profile, files, disk, fidx, scanVars, bidx, issues,
                   total_issues, total_errors, total_warnings, files_with_issues,
                   printed>>

Next ==
    \/ ReadFail
    \/ ReadOk
    \/ ScanLine
    \/ EndScan
    \/ CheckBlock
    \/ Return
    \/ Tally
    \/ Exit

Spec == Init /\ [][Next]_vars

----------------------------------------------------------------------------
(* Vocabulary of the properties *)

\* The blocks validate_file has evaluated so far.
CheckedBlocks == {blocks[k] : k \in 1..bidx}

\* The issues reported at a line.
IssuesAt(l) == SelectSeq(issues, LAMBDA x : x.line = l)

\* Some comment line of the block's run contains the marker.
RunHas(b, marker) ==
    \E n \in b.start_line..b.end_line : Has(Strip(lines[n]), marker)

\* The first line of the run of comment lines that ends at line e.
RunStart(e) ==
    CHOOSE m \in 1..e :
        /\ \A j \in m..e : IsDocLine(lines[j])
        /\ m = 1 \/ ~IsDocLine(lines[m - 1])

\* The lines of the file scanned so far that match a member pattern.
QualifyingLines == {n \in DOMAIN lines : ~IsDocLine(lines[n]) /\ MatchingPatterns(lines[n]) # {}}

\* The text of the block's comment run, without the /// prefixes.
RunText(b) ==
    Join([n \in 1..(b.end_line - b.start_line + 1) |->
            ContentAfterSlashes(lines[b.start_line + n - 1])])

Positions(s, marker) == {p \in DOMAIN s : s[p] = marker}

\* The run holds one code block: one tagged open marker, then one close
\* marker, and no other code marker.
OneCodeBlock(b) ==
    LET t == RunText(b)
    IN  /\ Cardinality(Positions(t, CodeOpen)) = 1
        /\ Cardinality(Positions(t, "</code>")) = 1
        /\ Positions(t, "<code lang=\"CSharp\">") = {}
        /\ \A o \in Positions(t, CodeOpen) : \A c \in Positions(t, "</code>") : o < c

\* The text between the tagged open marker and the close marker.
CodeBody(b) ==
    LET t == RunText(b)
        o == CHOOSE x \in Positions(t, CodeOpen) : TRUE
        c == CHOOSE x \in Positions(t, "</code>") : TRUE
    IN  SubSeq(t, o + 1, c - 1)

\* The member declarations of the kinds the documentation policy names:
\* methods, properties, fields, types, conversion and other operators, with
\* a visibility other than private.
NonPrivateMembers ==
    {Method, GenericMethod, Property, ExprProperty, ProtectedInternal, Field,
     Class, OperatorPlus, Conversion}

----------------------------------------------------------------------------
(* Properties *)

\* C1: first failure wins.  Every evaluated block has at most one error; a
\* block reported for a missing summary or a missing example has no other
\* issue; no block has both an error and a warning.
C1_FirstFailureWins ==
    \A b \in CheckedBlocks :
        LET is == IssuesAt(b.start_line)
        IN  /\ Errors(is) <= 1
            /\ (\E n \in DOMAIN is : is[n].message = MissingSummary) => Len(is) = 1
            /\ (\E n \in DOMAIN is : is[n].message = MissingExample) => Len(is) = 1
            /\ ~(Errors(is) > 0 /\ Warnings(is) > 0)

\* A block without summary and without example whose code holds a placeholder
\* has been evaluated.
C1_Witness ==
    \E b \in CheckedBlocks :
        /\ ~RunHas(b, "<summary>") /\ ~RunHas(b, "<example>")
        /\ check_for_placeholders(b.code_content) # <<>>
        /\ Len(IssuesAt(b.start_line)) = 1

\* C2: for an evaluated block with summary, example and one tagged code
\* block, every placeholder pattern that matches the text between the open
\* marker and the close marker is reported by exactly one warning at the
\* block's start line, and the block has no error.
C2_WarningPerPatternInBody ==
    \A b \in CheckedBlocks :
        (RunHas(b, "<summary>") /\ RunHas(b, "<example>") /\ OneCodeBlock(b)) =>
            LET is == IssuesAt(b.start_line)
            IN  /\ Errors(is) = 0
                /\ \A n \in DOMAIN PLACEHOLDER_PATTERNS :
                      Search(PLACEHOLDER_PATTERNS[n].re, CodeBody(b)) =>
                          Cardinality({m \in DOMAIN is :
                              /\ is[m].issue_type = "warning"
                              /\ is[m].message = PlaceholderFound(PLACEHOLDER_PATTERNS[n].src)}) = 1

\* C3: an evaluated block whose run has a summary marker but no example
\* marker, or no exactly tagged code-open marker, has exactly one issue: the
\* missing-example error, at the first comment line of the run, which is not
\* the declaration line.
C3_MissingExampleAtStartLine ==
    \A b \in CheckedBlocks :
        (RunHas(b, "<summary>") /\ (~RunHas(b, "<example>") \/ ~RunHas(b, CodeOpen))) =>
            LET first == RunStart(b.member_line - 1)
                is == SelectSeq(issues, LAMBDA x : x.line \in first..b.member_line)
            IN  /\ Len(is) = 1
                /\ is[1].line = first
                /\ first < b.member_line
                /\ is[1].issue_type = "error"
                /\ is[1].message = MissingExample

\* A block with summary and example whose code block is tagged "CSharp" has
\* been evaluated.
C3_Witness ==
    \E b \in CheckedBlocks :
        /\ RunHas(b, "<summary>") /\ RunHas(b, "<example>")
        /\ RunHas(b, "<code lang=\"CSharp\">") /\ ~RunHas(b, CodeOpen)
        /\ b.end_line > b.start_line

\* C4: an evaluated block with summary, example and one tagged code block
\* whose body matches no placeholder pattern, followed by a public method
\* declaration, has no issue.
C4_CleanBlockNoIssue ==
    \A b \in CheckedBlocks :
        (/\ RunHas(b, "<summary>") /\ RunHas(b, "<example>") /\ OneCodeBlock(b)
         /\ check_for_placeholders(CodeBody(b)) = <<>>
         /\ lines[b.member_line] = Method) =>
            IssuesAt(b.start_line) = <<>>

\* C5: a comment run followed by a line that matches no member pattern yields
\* no block and no issue, and no block's run reaches over a line that is not
\* a comment line; after such a line no run is open.
C5_NonQualifyingDiscards ==
    /\ \A n \in 2..Len(lines) :
          (IsDocLine(lines[n - 1]) /\ ~IsDocLine(lines[n]) /\ n \notin QualifyingLines) =>
              /\ \A k \in DOMAIN blocks :
                    /\ blocks[k].member_line # n
                    /\ blocks[k].start_line \notin RunStart(n - 1)..n
                    /\ blocks[k].end_line \notin RunStart(n - 1)..n
              /\ \A m \in DOMAIN issues : issues[m].line \notin RunStart(n - 1)..n
              /\ (pc = "scan" /\ n = Len(lines)) => (current_block = None /\ ~in_code)
    /\ \A k \in DOMAIN blocks :
          \A j \in blocks[k].start_line..blocks[k].end_line : IsDocLine(lines[j])

\* A file in which a run without summary is followed by a line that is no
\* member declaration has been validated, without any issue.
C5_Witness ==
    /\ pc = "tally"
    /\ \E n \in 2..Len(lines) :
          /\ IsDocLine(lines[n - 1]) /\ ~IsDocLine(lines[n]) /\ n \notin QualifyingLines
          /\ \A j \in RunStart(n - 1)..(n - 1) : ~Has(lines[j], "<summary>")
    /\ issues = <<>>

\* C6: there are at most as many blocks as qualifying declaration lines, the
\* declaration line of every block is a qualifying line, and no two blocks
\* share a declaration line.
C6_BlocksBoundedByDeclarations ==
    /\ Len(blocks) <= Cardinality(QualifyingLines)
    /\ \A k \in DOMAIN blocks : blocks[k].member_line \in QualifyingLines
    /\ \A j, k \in DOMAIN blocks : j # k => blocks[j].member_line # blocks[k].member_line

\* A line that matches several member patterns has closed a run, and another
\* qualifying line has no block.
C6_Witness ==
    /\ \E k \in DOMAIN blocks : Cardinality(MatchingPatterns(lines[blocks[k].member_line])) > 1
    /\ Len(blocks) < Cardinality(QualifyingLines)

\* C7: every line that declares a non-private member and follows a comment
\* run is the declaration line of a block, and no line that starts with
\* private is.
C7_EveryNonPrivateMemberQualifies ==
    /\ \A n \in 2..Len(lines) :
          (lines[n] \in NonPrivateMembers /\ IsDocLine(lines[n - 1])) =>
              \E k \in DOMAIN blocks :
                  blocks[k].member_line = n /\ blocks[k].end_line = n - 1
    /\ \A k \in DOMAIN blocks : LStrip(lines[blocks[k].member_line])[1] # "private"

\* C8: after the scan of a file whose last line is a comment line, no block
\* and no issue belongs to the run that was open at the end of the file.
C8_OpenRunAtEndDiscarded ==
    (pc \in {"check", "tally"} /\ lines # <<>> /\ IsDocLine(lines[Len(lines)])) =>
        /\ \A k \in DOMAIN blocks :
              /\ blocks[k].member_line < RunStart(Len(lines))
              /\ blocks[k].end_line < RunStart(Len(lines))
        /\ \A m \in DOMAIN issues : issues[m].line < RunStart(Len(lines))

\* A file that ends in a run without summary, after a documented member, has
\* been validated.
C8_Witness ==
    /\ pc = "tally"
    /\ Len(blocks) = 1
    /\ IsDocLine(lines[Len(lines)])
    /\ \A j \in RunStart(Len(lines))..Len(lines) : ~Has(lines[j], "<summary>")

\* The files of the list, in order of validation, that could not be read.
Unreadables == {n \in 1..fidx : disk[files[n]].st = "unreadable"}

\* C9: validate_file returns exactly one issue for a file it cannot read, an
\* error at line 0 of that file; main prints it and goes on: at exit every
\* file of the list has been validated.
C9_ReadFailureIsolated ==
    /\ (pc = "tally" /\ disk[file_path].st = "unreadable") =>
          /\ Len(issues) = 1
          /\ issues[1].issue_type = "error"
          /\ issues[1].line = 0
          /\ issues[1].file = file_path
    /\ pc = "exit" =>
          /\ fidx = Len(files)
          /\ \A p \in DOMAIN disk : disk[p].st # "unread"
          /\ Len(SelectSeq(printed, LAMBDA x : x.line = 0)) = Cardinality(Unreadables)

\* main has exited after an unreadable file and, later in the list, a file
\* with a documented member.
C9_Witness ==
    /\ pc = "exit"
    /\ \E m, n \in DOMAIN files :
          /\ m < n
          /\ disk[files[m]].st = "unreadable"
          /\ disk[files[n]].st = "text"
          /\ \E x \in DOMAIN printed : printed[x].file = files[n]

\* C10: the exit status is 1 if some printed issue is an error and 0
\* otherwise, whatever the number of warnings.
C10_ExitStatus ==
    pc = "exit" =>
        exit_code = (IF \E n \in DOMAIN printed : printed[n].issue_type = "error"
                     THEN 1 ELSE 0)

\* main has exited with status 0 after printing a warning.
C10_Witness ==
    /\ pc = "exit"
    /\ exit_code = 0
    /\ \E n \in DOMAIN printed : printed[n].issue_type = "warning"

\* How many times main has validated the path so far.
Validations(p) == Cardinality({n \in 1..fidx : files[n] = p})

\* The issues main has printed for the path.
PrintedFor(p) == SelectSeq(printed, LAMBDA x : x.file = p)

\* The issues without the name of their file.
Anon(is) ==
    [n \in DOMAIN is |->
        [line |-> is[n].line, issue_type |-> is[n].issue_type, message |-> is[n].message]]

RECURSIVE Repeat(_, _)
Repeat(s, k) == IF k = 0 THEN <<>> ELSE s \o Repeat(s, k - 1)

\* C11: determinism.  When validate_file has returned for a file, its issues
\* all name that file, and for every file validated before whose text is the
\* same (the same path listed again, or another path), every earlier
\* validation printed the same issues in the same order: same line, same
\* severity, same message.
C11_Determinism ==
    (pc = "tally" /\ disk[file_path].st = "text") =>
        /\ \A n \in DOMAIN issues : issues[n].file = file_path
        /\ \A m \in 1..fidx :
              disk[files[m]] = disk[file_path] =>
                  Anon(PrintedFor(files[m])) = Repeat(Anon(issues), Validations(files[m]))

\* validate_file has returned a warning for a path it had validated before,
\* after another file with issues of its own.
C11_Witness ==
    /\ pc = "tally"
    /\ fidx >= 2
    /\ files[fidx] = file_path
    /\ disk[file_path].st = "text"
    /\ \E n \in DOMAIN issues : issues[n].issue_type = "warning"
    /\ \E n \in DOMAIN printed : printed[n].file # file_path

\* C12: an evaluated block whose run has the summary, example and tagged
\* code-open markers but no <remarks> marker is reported with an error at its
\* start line.
C12_RemarksRequired ==
    \A b \in CheckedBlocks :
        (/\ RunHas(b, "<summary>") /\ RunHas(b, "<example>") /\ RunHas(b, CodeOpen)
         /\ ~RunHas(b, "<remarks>")) =>
            Errors(IssuesAt(b.start_line)) >= 1

\* The lines of the run of comment lines that ends at the last line scanned.
OpenRun == RunStart(Len(lines))..Len(lines)

\* C13: the summary flag is sticky.  While a run is open its has_summary is
\* true exactly if one of the lines scanned so far in the run contains
\* <summary>, whatever the lines after it contain; and has_summary of a
\* returned block is true exactly if a line of its run contains <summary>.
C13_StickySummary ==
    /\ current_block # None =>
          current_block[1].has_summary =
              (\E n \in OpenRun : Has(Strip(lines[n]), "<summary>"))
    /\ \A k \in DOMAIN blocks : blocks[k].has_summary = RunHas(blocks[k], "<summary>")

\* A block was returned whose run has a line with <summary>, then a line
\* with </summary> and without <summary>, then a line with neither.
C13_Witness ==
    \E k \in DOMAIN blocks :
        LET b == blocks[k]
        IN  /\ b.has_summary
            /\ \E m, n \in b.start_line..b.end_line :
                  /\ m < n /\ n < b.end_line
                  /\ Has(lines[m], "<summary>")
                  /\ Has(lines[n], "</summary>") /\ ~Has(lines[n], "<summary>")
                  /\ ~Has(lines[b.end_line], "<summary>")
                  /\ ~Has(lines[b.end_line], "</summary>")

\* The lines of a run that contain the tagged open marker, the close marker.
OpenLines(from, to) == {n \in from..to : Has(Strip(lines[n]), CodeOpen)}
CloseLines(from, to) == {n \in from..to : Has(Strip(lines[n]), "</code>")}

\* The largest number of a non-empty set of line numbers.
Last(S) == CHOOSE n \in S : \A m \in S : m <= n

\* The line without its indentation, its /// and one space after it, if any.
OneSpaceRemoved(line) ==
    LET p == CHOOSE q \in DOMAIN line : line[q] = "///" /\ \A r \in 1..(q - 1) : IsSpace(line[r])
        from == IF p < Len(line) /\ line[p + 1] = Sp THEN p + 2 ELSE p + 1
    IN  SubSeq(line, from, Len(line))

\* The line without its indentation, its /// and all the whitespace after it.
Unindented(line) ==
    LET p == CHOOSE q \in DOMAIN line : line[q] = "///" /\ \A r \in 1..(q - 1) : IsSpace(line[r])
        text == {q \in (p + 1)..Len(line) : ~IsSpace(line[q])}
    IN  IF text = {} THEN <<>>
        ELSE SubSeq(line, CHOOSE q \in text : \A r \in text : q <= r, Len(line))

\* The lines from..to of the file, each changed by strip, joined by newlines.
Captured(strip(_), from, to) ==
    Join([n \in 1..(to - from + 1) |-> strip(lines[from + n - 1])])

\* The run of the block has one line with the tagged open marker and, after
\* it, one line with the close marker.
OneOpenThenClose(b) ==
    LET o == OpenLines(b.start_line, b.end_line)
        c == CloseLines(b.start_line, b.end_line)
    IN  Cardinality(o) = 1 /\ Cardinality(c) = 1 /\ Last(o) < Last(c)

\* C14: the code_content of a block whose run has one tagged open line and
\* one later close line is the lines after the open line up to, and without,
\* the close line, each without its /// and at most one space after it (any
\* further indentation kept), joined in order.
C14_CaptureKeepsIndentation ==
    \A k \in DOMAIN blocks :
        LET b == blocks[k]
        IN  OneOpenThenClose(b) =>
               b.code_content =
                   Captured(OneSpaceRemoved,
                            Last(OpenLines(b.start_line, b.end_line)) + 1,
                            Last(CloseLines(b.start_line, b.end_line)) - 1)

\* The smallest number of a non-empty set of line numbers.
First(S) == CHOOSE n \in S : \A m \in S : n <= m

\* The text captured for the code block of the run that was closed last: the
\* lines from the last tagged open line that is not after the last close line
\* up to, and without, the first close line from there on.
LastCaptured(b) ==
    LET c == CloseLines(b.start_line, b.end_line)
        o == IF c = {} THEN {} ELSE OpenLines(b.start_line, Last(c))
    IN  IF o = {} THEN <<>>
        ELSE Captured(Unindented, Last(o), First(CloseLines(Last(o), b.end_line)) - 1)

\* The patterns of the warnings among the issues, in order.
WarnedPatterns(is) ==
    LET w == SelectSeq(is, LAMBDA x : x.issue_type = "warning")
    IN  [n \in DOMAIN w |-> w[n].message[2]]

\* C15: last one wins.  The code_content of a returned block is the text
\* captured for the code block of its run that was closed last, and nothing
\* of the text captured for the code blocks opened before it; the warnings of
\* an evaluated block with summary, example and tagged code are those of the
\* patterns found in that text.
C15_LastOneWins ==
    /\ \A k \in DOMAIN blocks : blocks[k].code_content = LastCaptured(blocks[k])
    /\ \A b \in CheckedBlocks :
          (b.has_summary /\ b.has_example /\ b.has_code_csharp) =>
              WarnedPatterns(IssuesAt(b.start_line)) =
                  check_for_placeholders(LastCaptured(b))

\* A block was evaluated without any issue whose run has a first code block
\* holding a placeholder, closed, and then a second code block, closed.
C15_Witness ==
    \E b \in CheckedBlocks :
        \E o1, c1, o2, c2 \in b.start_line..b.end_line :
            /\ o1 < c1 /\ c1 < o2 /\ o2 <= c2
            /\ {o1, o2} = OpenLines(b.start_line, b.end_line)
            /\ {c1, c2} = CloseLines(b.start_line, b.end_line)
            /\ check_for_placeholders(Captured(Unindented, o1, c1 - 1)) # <<>>
            /\ IssuesAt(b.start_line) = <<>>

\* C16: discard is total.  After a line that is not a comment line no run is
\* open, capture is off and the list of captured lines is empty; and after
\* the first comment line that follows such a line, the open block, capture
\* mode and the captured lines are what that one line makes of a new block.
C16_DiscardIsTotal ==
    /\ (pc = "scan" /\ lines # <<>> /\ ~IsDocLine(lines[Len(lines)])) =>
          current_block = None /\ ~in_code /\ code_content = <<>>
    /\ (/\ pc = "scan" /\ Len(lines) >= 2
        /\ IsDocLine(lines[Len(lines)]) /\ ~IsDocLine(lines[Len(lines) - 1])) =>
          LET l == lines[Len(lines)]
              capturing == Has(l, CodeOpen) /\ ~Has(l, "</code>")
          IN  /\ current_block # None
              /\ current_block[1].start_line = Len(lines)
              /\ current_block[1].end_line = Len(lines)
              /\ current_block[1].has_summary = Has(l, "<summary>")
              /\ current_block[1].has_example = Has(l, "<example>")
              /\ current_block[1].has_code_csharp = Has(l, CodeOpen)
              /\ current_block[1].code_content = <<>>
              /\ in_code = capturing
              /\ code_content = IF capturing THEN <<Unindented(l)>> ELSE <<>>

\* A run with summary, example and a code block still open was closed by a
\* declaration, and the first line of the next run, which has no marker, has
\* been scanned.
C16_Witness ==
    /\ pc = "scan"
    /\ Len(lines) >= 3
    /\ LET n == Len(lines)
       IN  /\ IsDocLine(lines[n]) /\ ~IsDocLine(lines[n - 1]) /\ IsDocLine(lines[n - 2])
           /\ Has(lines[n - 2], "<summary>") /\ Has(lines[n - 2], "<example>")
           /\ Has(lines[n - 2], CodeOpen) /\ ~Has(lines[n - 2], "</code>")
           /\ (n - 1) \in QualifyingLines
           /\ \A m \in {"<summary>", "<example>", CodeOpen, "</code>"} : ~Has(lines[n], m)
           /\ ~in_code

\* C17: every returned block has 1 <= start_line <= end_line and
\* member_line = end_line + 1, a line of the file that is not a comment line,
\* while the lines start_line..end_line all are; the blocks are in file
\* order and their line ranges are disjoint: the member_line of a block is
\* less than the start_line of the next.
C17_BlockLines ==
    /\ \A k \in DOMAIN blocks :
          LET b == blocks[k]
          IN  /\ 1 <= b.start_line /\ b.start_line <= b.end_line
              /\ b.member_line = b.end_line + 1
              /\ b.member_line <= Len(lines)
              /\ ~IsDocLine(lines[b.member_line])
              /\ \A n \in b.start_line..b.end_line : IsDocLine(lines[n])
    /\ \A k \in 1..(Len(blocks) - 1) : blocks[k].member_line < blocks[k + 1].start_line

\* Two blocks were returned for one file, the run of the second right after
\* the declaration of the first.
C17_Witness ==
    /\ pc = "check"
    /\ Len(blocks) = 2
    /\ blocks[2].start_line = blocks[1].member_line + 1

\* C18: the list find_src_files returns is in ascending order of path and
\* holds every path once at most; main validates the files one at a time in
\* the order of the list, each exactly once, and prints its issues once.
C18_EachFileOnce ==
    /\ \A m, n \in DOMAIN files : m < n => PathLess(files[m], files[n])
    /\ pc \in {"scan", "check", "tally"} => fidx < Len(files)
    /\ \A n \in 1..fidx : Validations(files[n]) = 1
    /\ pc = "exit" => \A n \in DOMAIN files : Validations(files[n]) = 1

\* The block's code_content, if not empty, comes with has_code_csharp and
\* with a close line after a tagged open line in the block's run.
ClosedCode(b) ==
    b.code_content # <<>> =>
        /\ b.has_code_csharp
        /\ \E o \in OpenLines(b.start_line, b.end_line) :
              \E c \in CloseLines(b.start_line, b.end_line) : o < c

\* The tagged open lines of the block's run with no close line on the same or
\* a later line of the run: the code blocks never closed.
UnclosedOpens(b) ==
    {o \in OpenLines(b.start_line, b.end_line) : CloseLines(o, b.end_line) = {}}

\* C19 as stated: in every state of the scan and for every returned block, a
\* code_content that is not empty implies has_code_csharp and a close line
\* after a tagged open line in the same run; capture mode is on only while
\* a run is open; and a returned block whose run has a tagged code block
\* that is never closed has an empty code_content.
C19_UnclosedLeavesEmpty ==
    /\ current_block # None => ClosedCode(current_block[1])
    /\ \A k \in DOMAIN blocks : ClosedCode(blocks[k])
    /\ in_code => current_block # None
    /\ \A k \in DOMAIN blocks :
          UnclosedOpens(blocks[k]) # {} => blocks[k].code_content = <<>>

\* C19, amended: as above, but a tagged code block that is never closed
\* adds nothing to code_content: a returned block whose run has one has the
\* text of the code block closed before it, and an empty code_content if no
\* close line precedes the unclosed open line.
C19_CodeContentNeedsClose ==
    /\ current_block # None => ClosedCode(current_block[1])
    /\ \A k \in DOMAIN blocks : ClosedCode(blocks[k])
    /\ in_code => current_block # None
    /\ \A k \in DOMAIN blocks :
          LET b == blocks[k]
          IN  UnclosedOpens(b) # {} =>
                 /\ b.code_content = LastCaptured(b)
                 /\ CloseLines(b.start_line, First(UnclosedOpens(b)) - 1) = {} =>
                        b.code_content = <<>>

\* A block was returned whose run has a tagged open line, a line after it
\* and no close line; its code_content is empty.
C19_Witness ==
    \E k \in DOMAIN blocks :
        LET b == blocks[k]
        IN  /\ UnclosedOpens(b) # {}
            /\ CloseLines(b.start_line, b.end_line) = {}
            /\ First(UnclosedOpens(b)) < b.end_line
            /\ b.has_code_csharp
            /\ b.code_content = <<>>

\* The markers of the three flags that occur in the run of the block.
Markers(b) == {m \in {"<summary>", "<example>", CodeOpen} : RunHas(b, m)}

\* C20: the three flags of a returned block are a function of the set of
\* markers that occur in its run, whatever their order: each flag is true
\* exactly if some line of the run contains its marker; so an evaluated
\* block has the missing-summary error exactly if <summary> occurs nowhere
\* in its run, and the missing-example error exactly if <summary> occurs and
\* <example> or the tagged open marker does not.
C20_FlagsOrderIndependent ==
    /\ \A k \in DOMAIN blocks :
          LET b == blocks[k]
          IN  {m \in {"<summary>", "<example>", CodeOpen} :
                  \/ m = "<summary>" /\ b.has_summary
                  \/ m = "<example>" /\ b.has_example
                  \/ m = CodeOpen /\ b.has_code_csharp} = Markers(b)
    /\ \A b \in CheckedBlocks :
          LET is == IssuesAt(b.start_line)
          IN  /\ (\E n \in DOMAIN is : is[n].message = MissingSummary)
                     = ("<summary>" \notin Markers(b))
              /\ (\E n \in DOMAIN is : is[n].message = MissingExample)
                     = ("<summary>" \in Markers(b)
                        /\ Markers(b) # {"<summary>", "<example>", CodeOpen})

\* A block was evaluated without error whose run has the tagged open marker
\* on a line before the <example> line, and the <example> line before the
\* <summary> line.
C20_Witness ==
    \E b \in CheckedBlocks :
        /\ Errors(IssuesAt(b.start_line)) = 0
        /\ \E o, e, m \in b.start_line..b.end_line :
              /\ o < e /\ e < m
              /\ Has(lines[o], CodeOpen) /\ Has(lines[e], "<example>")
              /\ Has(lines[m], "<summary>")
              /\ \A j \in b.start_line..e : ~Has(lines[j], "<summary>")
              /\ \A j \in b.start_line..o : ~Has(lines[j], "<example>")

====
